---- MODULE Spec2Model ----
(***************************************************************************)
(* Selective-Repeat sender (A) and receiver (B) of src/sr.c, composed with *)
(* the emulator's lossy FIFO channel and single timer per entity.          *)
(*                                                                         *)
(* Six specifications share the variables:                                 *)
(*   Spec         sender, channel, receiver and timer composed; the        *)
(*                channel loses or corrupts at most MaxFaults packets;     *)
(*   SenderSpec   the sender alone, driven by any sequence of A_output,    *)
(*                A_input (any ACK a receiver can build, clean or          *)
(*                corrupted) and A_timerinterrupt calls;                   *)
(*   WireSpec     as SenderSpec, with A_input fed any packet of the wire   *)
(*                shape (acknum in 0..SEQSPACE-1 or NOTINUSE);             *)
(*   ReceiverSpec the receiver alone, driven by any sequence of B_input    *)
(*                calls;                                                   *)
(*   ChecksumSpec sender and receiver with one packet in flight at a time, *)
(*                of which the channel may overwrite one payload byte;     *)
(*   WindowSpec   is_within_window called on its own with any arguments.   *)
(***************************************************************************)
EXTENDS Integers, Sequences, FiniteSets, TLC

(* ---------------- program constants (src/sr.c:26-28, 43) --------------- *)
WINDOWSIZE == 6
SEQSPACE == 16
NOTINUSE == -1
PAYLOADLEN == 20

(* ---------------- bounds of the model ---------------------------------- *)
\* messages layer 5 hands to A_output and A accepts, in the whole run
MaxMsgs == 28
\* packets in flight per direction; an event that sends is scheduled only
\* when the channel has room for what it sends
MaxChan == 1
\* packets the channel loses or corrupts, in the whole run
MaxFaults == 2
\* messages A accepts when the sender is driven alone
MaxSenderMsgs == 18
\* messages offered to the receiver when it is driven alone
MaxRecvMsgs == 17
\* messages A accepts when the channel overwrites payload bytes
MaxChkMsgs == 3

Idx == 0..(SEQSPACE - 1)

(* ---------------- packets ---------------------------------------------- *)
\* the payload of the n-th message accepted by A_output: 20 bytes, told
\* apart by the first byte
Msg(n) == [i \in 1..PAYLOADLEN |-> IF i = 1 THEN n ELSE 0]

\* 'A' * 20, the filler of an ACK
AckFill == [i \in 1..PAYLOADLEN |-> 65]

\* '0' * 20, the filler B_init writes into every reassembly slot
ZeroFill == [i \in 1..PAYLOADLEN |-> 48]

\* the for loop of ComputeChecksum over the 20 payload bytes
SumBytes(payload) ==
  payload[1] + payload[2] + payload[3] + payload[4] + payload[5]
  + payload[6] + payload[7] + payload[8] + payload[9] + payload[10]
  + payload[11] + payload[12] + payload[13] + payload[14] + payload[15]
  + payload[16] + payload[17] + payload[18] + payload[19] + payload[20]

\* the for loop left out: the checksum covers the two header fields only
ComputeChecksumHeader(packet) == packet.seqnum + packet.acknum

ComputeChecksum(packet) ==
  packet.seqnum + packet.acknum + SumBytes(packet.payload)

\* IsCorrupted with the comparison lost: every packet passes
IsCorruptedNever(packet) == FALSE

IsCorrupted(packet) == packet.checksum # ComputeChecksum(packet)

\* what the channel does to a packet it corrupts: it overwrites payload
\* with 'z' and leaves the checksum alone
Corrupt(packet) == [packet EXCEPT !.payload[1] = 122]

\* sendpkt of A_output
DataPkt(seq, payload) ==
  LET p == [seqnum |-> seq, acknum |-> NOTINUSE, payload |-> payload, checksum |-> 0]
  IN [p EXCEPT !.checksum = ComputeChecksum(p)]

\* packet_return / prev_buffer_pkt of B_input
AckPkt(seq) ==
  LET p == [seqnum |-> NOTINUSE, acknum |-> seq, payload |-> AckFill, checksum |-> 0]
  IN [p EXCEPT !.checksum = ComputeChecksum(p)]

\* a static struct pkt before anything is stored in it
ZeroPkt == [seqnum |-> 0, acknum |-> 0, payload |-> [i \in 1..PAYLOADLEN |-> 0], checksum |-> 0]

\* a reassembly slot after B_init
EmptySlot == [seqnum |-> NOTINUSE, acknum |-> NOTINUSE, payload |-> ZeroFill, checksum |-> 0]

\* the wrapped case left out: the range is taken as start <= seqnum < end
is_within_windowLinear(seqnum, start, end) == seqnum >= start /\ seqnum < end

is_within_window(seqnum, start, end) ==
  IF start <= end
  THEN seqnum >= start /\ seqnum < end
  ELSE seqnum >= start \/ seqnum < end

(* ---------------- state ------------------------------------------------ *)
VARIABLES
  windowfirst,     \* A: oldest sequence number awaiting an ACK
  A_nextseqnum,    \* A: next sequence number to use
  isAcked,         \* A: flag per sequence number
  buffer,          \* A: packet per sequence number, kept for retransmission
  timerA,          \* TRUE iff A's timer is running
  buffer_B_side,   \* B: reassembly slot per sequence number
  buffer_B_start,  \* B: next sequence number to deliver
  AtoB,            \* packets in flight from A to B, oldest first
  BtoA,            \* packets in flight from B to A, oldest first
  delivered,       \* payloads B handed to layer 5, in order
  nAccepted,       \* number of messages A_output has accepted
  baseCount,       \* number of sequence numbers windowfirst has passed
  faults,          \* number of packets the channel has lost or corrupted
  ev,              \* what the last handler call was given and did
  args,            \* the arguments of the last call of is_within_window on its own
  result           \* what that call returned

senderVars == <<windowfirst, A_nextseqnum, isAcked, buffer, timerA, nAccepted, baseCount>>
receiverVars == <<buffer_B_side, buffer_B_start>>
chanVars == <<AtoB, BtoA, faults>>
callVars == <<args, result>>
vars == <<windowfirst, A_nextseqnum, isAcked, buffer, timerA, buffer_B_side,
          buffer_B_start, AtoB, BtoA, faults, delivered, nAccepted, baseCount, ev,
          args, result>>

(* ---------------- the emulator's side of the interface ----------------- *)
\* the record of one handler call: its name, the packet A_input was given
\* (NoPkt for the other handlers), the packets it handed to layer 3, the
\* payloads it handed to layer 5, its timer calls (each with the state the
\* timer was in), the statistics counters it incremented, and whether it
\* indexed isAcked outside 0..SEQSPACE-1; again tells that the call is
\* A_input given the packet the call just before it was given
Event(op, ack, toL3, toL5, timer, stats, oob) ==
  [op |-> op, ack |-> ack, toL3 |-> toL3, toL5 |-> toL5, timer |-> timer,
   stats |-> stats, oob |-> oob,
   again |-> (op = "A_input" /\ ev.op = "A_input" /\ ev.ack = ack)]

NoPkt == <<>>

NoTimer == [run |-> timerA, log |-> <<>>]
starttimer(t) == [run |-> TRUE, log |-> Append(t.log, [call |-> "starttimer", running |-> t.run])]
stoptimer(t) == [run |-> FALSE, log |-> Append(t.log, [call |-> "stoptimer", running |-> t.run])]

\* what the channel can do with the packets a handler sent (at most one)
Fates(sent) == IF sent # <<>> /\ faults < MaxFaults THEN {"ok", "lost", "corrupt"} ELSE {"ok"}

\* the channel after a handler has handed it the packets sent
tolayer3(chan, sent, fate) ==
  IF sent = <<>> \/ fate = "lost" THEN chan
  ELSE IF fate = "corrupt" THEN Append(chan, Corrupt(sent[1]))
  ELSE Append(chan, sent[1])

\* the application's record of what B delivered, after a handler has
\* handed it the payloads in out
tolayer5(sink, out) == sink \o out

\* the channel has room for one more packet
Room(chan) == Len(chan) < MaxChan

\* the fault count after the channel has dealt with the packets sent
Faulted(fate) == IF fate = "ok" THEN faults ELSE faults + 1

(* ---------------- sender ----------------------------------------------- *)
\* the admission test of A_output
WindowNotFull(first, next) == first + WINDOWSIZE > next

A_output(message) ==
  IF WindowNotFull(windowfirst, A_nextseqnum)
  THEN LET sendpkt == DataPkt(A_nextseqnum, message)
           t == IF A_nextseqnum = windowfirst THEN starttimer(NoTimer) ELSE NoTimer
       IN /\ buffer' = [buffer EXCEPT ![A_nextseqnum % SEQSPACE] = sendpkt]
          /\ timerA' = t.run
          /\ A_nextseqnum' = (A_nextseqnum + 1) % SEQSPACE
          /\ nAccepted' = nAccepted + 1
          /\ ev' = Event("A_output", NoPkt, <<sendpkt>>, <<>>, t.log, {}, FALSE)
          /\ UNCHANGED <<windowfirst, isAcked, baseCount>>
  ELSE /\ ev' = Event("A_output", NoPkt, <<>>, <<>>, <<>>, {"window_full"}, FALSE)
       /\ UNCHANGED senderVars

\* the while loop of A_input: first, flags and the number of steps taken
RECURSIVE Slide(_, _, _, _)
Slide(first, next, acked, n) ==
  IF first # next /\ acked[first]
  THEN Slide((first + 1) % SEQSPACE, next, [acked EXCEPT ![first] = FALSE], n + 1)
  ELSE [first |-> first, acked |-> acked, n |-> n]

\* the values a read of isAcked[acknum] can give: the flag, or, outside the
\* array, whatever the neighbouring memory holds
ReadIsAcked(acknum) == IF acknum \in Idx THEN {isAcked[acknum]} ELSE BOOLEAN

\* the duplicate test left out: every in-window ACK counts as new
IsDuplicateNever(flag) == FALSE

\* the duplicate test always taken: every in-window ACK counts as a duplicate
IsDuplicateAlways(flag) == TRUE

\* the duplicate test of A_input on the value read
IsDuplicate(flag) == flag

A_input(packet) ==
  IF IsCorrupted(packet)
  THEN /\ ev' = Event("A_input", packet, <<>>, <<>>, <<>>, {}, FALSE)
       /\ UNCHANGED senderVars
  ELSE IF ~is_within_window(packet.acknum, windowfirst, A_nextseqnum)
  THEN /\ ev' = Event("A_input", packet, <<>>, <<>>, <<>>, {"total_ACKs_received"}, FALSE)
       /\ UNCHANGED senderVars
  ELSE \E flag \in ReadIsAcked(packet.acknum) :
    IF IsDuplicate(flag)
    THEN /\ ev' = Event("A_input", packet, <<>>, <<>>, <<>>, {"total_ACKs_received"},
                        packet.acknum \notin Idx)
         /\ UNCHANGED senderVars
    ELSE LET marked == IF packet.acknum \in Idx
                       THEN [isAcked EXCEPT ![packet.acknum] = TRUE]
                       ELSE isAcked
             stats == {"total_ACKs_received", "new_ACKs"}
         IN IF packet.acknum = windowfirst
            THEN LET s == Slide(windowfirst, A_nextseqnum, marked, 0)
                     t0 == stoptimer(NoTimer)
                     t == IF s.first # A_nextseqnum THEN starttimer(t0) ELSE t0
                 IN /\ windowfirst' = s.first
                    /\ isAcked' = s.acked
                    /\ baseCount' = baseCount + s.n
                    /\ timerA' = t.run
                    /\ ev' = Event("A_input", packet, <<>>, <<>>, t.log, stats, FALSE)
                    /\ UNCHANGED <<A_nextseqnum, buffer, nAccepted>>
            ELSE /\ isAcked' = marked
                 /\ ev' = Event("A_input", packet, <<>>, <<>>, <<>>, stats,
                                packet.acknum \notin Idx)
                 /\ UNCHANGED <<windowfirst, A_nextseqnum, buffer, timerA, nAccepted, baseCount>>

\* the packet A_timerinterrupt resends
ResendPkt == buffer[windowfirst]

\* called by the emulator when the timer expires: the timer is no longer
\* running when the handler starts
A_timerinterrupt ==
  LET send_pkt == ResendPkt
      t == starttimer([run |-> FALSE, log |-> <<>>])
  IN /\ timerA' = t.run
     /\ ev' = Event("A_timerinterrupt", NoPkt, <<send_pkt>>, <<>>, t.log,
                    {"packets_resent"}, FALSE)
     /\ UNCHANGED <<windowfirst, A_nextseqnum, isAcked, buffer, nAccepted, baseCount>>

(* ---------------- receiver --------------------------------------------- *)
CurrLeft(start) == start
\* right one off: the current window takes one sequence number too many
CurrRightWide(start) == (start + WINDOWSIZE + 1) % SEQSPACE

CurrRight(start) == (start + WINDOWSIZE) % SEQSPACE
\* prevLeft one off: the previous window misses its oldest sequence number
PrevLeftShort(start) == (start + SEQSPACE - WINDOWSIZE + 1) % SEQSPACE

PrevLeft(start) == (start + SEQSPACE - WINDOWSIZE) % SEQSPACE
PrevRight(start) == start

\* the drain loop run once at most: one payload delivered per call
DrainOne(slots, start, out) ==
  IF slots[start].seqnum # NOTINUSE
  THEN [slots |-> [slots EXCEPT ![start].seqnum = NOTINUSE],
        start |-> (start + 1) % SEQSPACE,
        out |-> Append(out, slots[start].payload)]
  ELSE [slots |-> slots, start |-> start, out |-> out]

\* the drain loop of B_input: slots, start and the payloads delivered
RECURSIVE Drain(_, _, _)
Drain(slots, start, out) ==
  IF slots[start].seqnum # NOTINUSE
  THEN Drain([slots EXCEPT ![start].seqnum = NOTINUSE], (start + 1) % SEQSPACE,
             Append(out, slots[start].payload))
  ELSE [slots |-> slots, start |-> start, out |-> out]

B_input(packet) ==
  IF IsCorrupted(packet)
  THEN /\ ev' = Event("B_input", NoPkt, <<>>, <<>>, <<>>, {}, FALSE)
       /\ UNCHANGED receiverVars
  ELSE IF is_within_window(packet.seqnum, CurrLeft(buffer_B_start), CurrRight(buffer_B_start))
  THEN LET packet_return == AckPkt(packet.seqnum)
           stored == IF buffer_B_side[packet.seqnum].seqnum = NOTINUSE
                     THEN [buffer_B_side EXCEPT ![packet.seqnum] = packet]
                     ELSE buffer_B_side
           d == Drain(stored, buffer_B_start, <<>>)
       IN /\ buffer_B_side' = d.slots
          /\ buffer_B_start' = d.start
          /\ ev' = Event("B_input", NoPkt, <<packet_return>>, d.out, <<>>,
                         {"packets_received"}, FALSE)
  ELSE IF is_within_window(packet.seqnum, PrevLeft(buffer_B_start), PrevRight(buffer_B_start))
  THEN /\ ev' = Event("B_input", NoPkt, <<AckPkt(packet.seqnum)>>, <<>>, <<>>,
                      {"packets_received"}, FALSE)
       /\ UNCHANGED receiverVars
  ELSE /\ ev' = Event("B_input", NoPkt, <<>>, <<>>, <<>>, {"packets_received"}, FALSE)
       /\ UNCHANGED receiverVars

(* ---------------- initial state: A_init, B_init, nothing in flight ----- *)
Init ==
  /\ windowfirst = 0
  /\ A_nextseqnum = 0
  /\ isAcked = [i \in Idx |-> FALSE]
  /\ buffer = [i \in Idx |-> ZeroPkt]
  /\ timerA = FALSE
  /\ buffer_B_side = [i \in Idx |-> EmptySlot]
  /\ buffer_B_start = 0
  /\ AtoB = <<>>
  /\ BtoA = <<>>
  /\ faults = 0
  /\ delivered = <<>>
  /\ nAccepted = 0
  /\ baseCount = 0
  /\ ev = [op |-> "init", ack |-> NoPkt, toL3 |-> <<>>, toL5 |-> <<>>, timer |-> <<>>,
           stats |-> {}, oob |-> FALSE, again |-> FALSE]
  /\ args = <<>>
  /\ result = <<>>

(* ---------------- the composed system ---------------------------------- *)
\* layer 5 hands A the next message
Submit ==
  /\ nAccepted < MaxMsgs
  /\ Room(AtoB)
  /\ A_output(Msg(nAccepted))
  /\ \E fate \in Fates(ev'.toL3) :
       /\ AtoB' = tolayer3(AtoB, ev'.toL3, fate)
       /\ faults' = Faulted(fate)
  /\ UNCHANGED <<BtoA, receiverVars, delivered>>
  /\ UNCHANGED callVars

\* the channel hands A the oldest packet in flight from B
AckArrives ==
  /\ BtoA # <<>>
  /\ A_input(Head(BtoA))
  /\ BtoA' = Tail(BtoA)
  /\ UNCHANGED <<AtoB, faults, receiverVars, delivered>>
  /\ UNCHANGED callVars

\* A's timer expires
Timeout ==
  /\ timerA
  /\ Room(AtoB)
  /\ A_timerinterrupt
  /\ \E fate \in Fates(ev'.toL3) :
       /\ AtoB' = tolayer3(AtoB, ev'.toL3, fate)
       /\ faults' = Faulted(fate)
  /\ UNCHANGED <<BtoA, receiverVars, delivered>>
  /\ UNCHANGED callVars

\* the channel hands B the oldest packet in flight from A
PacketArrives ==
  /\ AtoB # <<>>
  /\ Room(BtoA)
  /\ B_input(Head(AtoB))
  /\ AtoB' = Tail(AtoB)
  /\ \E fate \in Fates(ev'.toL3) :
       /\ BtoA' = tolayer3(BtoA, ev'.toL3, fate)
       /\ faults' = Faulted(fate)
  /\ delivered' = tolayer5(delivered, ev'.toL5)
  /\ UNCHANGED senderVars
  /\ UNCHANGED callVars

Next == Submit \/ AckArrives \/ Timeout \/ PacketArrives

Spec == Init /\ [][Next]_vars

(* ---------------- the sender alone -------------------------------------- *)
\* the ACKs a receiver can build, as they leave the channel
AckInputs == {AckPkt(a) : a \in Idx} \cup {Corrupt(AckPkt(a)) : a \in Idx}

\* a packet whose acknum is the unused sentinel, with a matching checksum
SentinelPkt ==
  LET p == [seqnum |-> NOTINUSE, acknum |-> NOTINUSE, payload |-> AckFill, checksum |-> 0]
  IN [p EXCEPT !.checksum = ComputeChecksum(p)]

\* the packets of the wire shape
WireInputs == AckInputs \cup {SentinelPkt, Corrupt(SentinelPkt)}

SenderSubmit ==
  /\ nAccepted < MaxSenderMsgs
  /\ A_output(Msg(nAccepted))
  /\ UNCHANGED <<chanVars, receiverVars, delivered>>
  /\ UNCHANGED callVars

SenderAck ==
  /\ \E packet \in AckInputs : A_input(packet)
  /\ UNCHANGED <<chanVars, receiverVars, delivered>>
  /\ UNCHANGED callVars

SenderWire ==
  /\ \E packet \in WireInputs : A_input(packet)
  /\ UNCHANGED <<chanVars, receiverVars, delivered>>
  /\ UNCHANGED callVars

SenderTimeout ==
  /\ timerA
  /\ A_timerinterrupt
  /\ UNCHANGED <<chanVars, receiverVars, delivered>>
  /\ UNCHANGED callVars

SenderNext == SenderSubmit \/ SenderAck \/ SenderTimeout

SenderSpec == Init /\ [][SenderNext]_vars

WireNext == SenderSubmit \/ SenderWire \/ SenderTimeout

WireSpec == Init /\ [][WireNext]_vars

(* ---------------- the receiver alone ------------------------------------ *)
\* data packets of the wire shape, as they leave the channel
\* the packets of the first MaxRecvMsgs messages as A_output builds them,
\* as they leave the channel: the receiver is handed them in any order, any
\* number of times
DataInputs ==
  LET clean == {DataPkt(n % SEQSPACE, Msg(n)) : n \in 0..(MaxRecvMsgs - 1)}
  IN clean \cup {Corrupt(p) : p \in clean}

ReceiverPacket ==
  /\ \E packet \in DataInputs : B_input(packet)
  /\ UNCHANGED <<chanVars, senderVars, delivered>>
  /\ UNCHANGED callVars

ReceiverNext == ReceiverPacket

ReceiverSpec == Init /\ [][ReceiverNext]_vars

(* ---------------- the checksum across the channel ----------------------- *)
\* one packet in flight at a time; the channel may overwrite one payload
\* byte of it, the checksum left as built, before the other side's handler
\* applies IsCorrupted to it
\* the values the channel writes: 'z', and the fill bytes of a message (0)
\* and of an ACK ('A'), which leave some bytes as they were
ByteVals == {0, 65, 122}

Overwrite(packet, i, v) == [packet EXCEPT !.payload[i] = v]

ChkSubmit ==
  /\ nAccepted < MaxChkMsgs
  /\ AtoB = <<>>
  /\ BtoA = <<>>
  /\ A_output(Msg(nAccepted))
  /\ AtoB' = tolayer3(AtoB, ev'.toL3, "ok")
  /\ UNCHANGED <<BtoA, faults, receiverVars, delivered>>
  /\ UNCHANGED callVars

ChkTimeout ==
  /\ timerA
  /\ AtoB = <<>>
  /\ BtoA = <<>>
  /\ A_timerinterrupt
  /\ AtoB' = tolayer3(AtoB, ev'.toL3, "ok")
  /\ UNCHANGED <<BtoA, faults, receiverVars, delivered>>
  /\ UNCHANGED callVars

\* the channel overwrites one payload byte of the data packet as sent
ChkOverwriteData ==
  /\ AtoB # <<>>
  /\ AtoB = ev.toL3
  /\ \E i \in 1..PAYLOADLEN, v \in ByteVals : AtoB' = <<Overwrite(AtoB[1], i, v)>>
  /\ UNCHANGED <<BtoA, faults, senderVars, receiverVars, delivered, ev>>
  /\ UNCHANGED callVars

ChkPacketArrives ==
  /\ AtoB # <<>>
  /\ B_input(Head(AtoB))
  /\ AtoB' = Tail(AtoB)
  /\ BtoA' = tolayer3(BtoA, ev'.toL3, "ok")
  /\ delivered' = tolayer5(delivered, ev'.toL5)
  /\ UNCHANGED <<faults, senderVars>>
  /\ UNCHANGED callVars

\* the channel overwrites one payload byte of the ACK as sent
ChkOverwriteAck ==
  /\ BtoA # <<>>
  /\ BtoA = ev.toL3
  /\ \E i \in 1..PAYLOADLEN, v \in ByteVals : BtoA' = <<Overwrite(BtoA[1], i, v)>>
  /\ UNCHANGED <<AtoB, faults, senderVars, receiverVars, delivered, ev>>
  /\ UNCHANGED callVars

ChkAckArrives ==
  /\ BtoA # <<>>
  /\ A_input(Head(BtoA))
  /\ BtoA' = Tail(BtoA)
  /\ UNCHANGED <<AtoB, faults, receiverVars, delivered>>
  /\ UNCHANGED callVars

ChecksumNext ==
  \/ ChkSubmit
  \/ ChkTimeout
  \/ ChkOverwriteData
  \/ ChkPacketArrives
  \/ ChkOverwriteAck
  \/ ChkAckArrives

ChecksumSpec == Init /\ [][ChecksumNext]_vars

(* ---------------- the window test on its own ---------------------------- *)
\* is_within_window called once, with any three sequence numbers
WindowTest ==
  /\ args = <<>>
  /\ \E seqnum \in Idx, start \in Idx, end \in Idx :
       /\ args' = <<seqnum, start, end>>
       /\ result' = <<is_within_window(seqnum, start, end)>>
  /\ UNCHANGED <<senderVars, receiverVars, chanVars, delivered, ev>>

\* currWindow and prevWindow as B_input computes them, for any seqnum and
\* any buffer_B_start
WindowClassify ==
  /\ args = <<>>
  /\ \E seqnum \in Idx, start \in Idx :
       /\ args' = <<seqnum, start>>
       /\ result' = <<is_within_window(seqnum, CurrLeft(start), CurrRight(start)),
                      is_within_window(seqnum, PrevLeft(start), PrevRight(start))>>
  /\ UNCHANGED <<senderVars, receiverVars, chanVars, delivered, ev>>

WindowNext == WindowTest \/ WindowClassify

WindowSpec == Init /\ [][WindowNext]_vars

(* ---------------- reference notions used by the properties ------------- *)
\* number of steps from first forward to next in the circular sequence space
Dist(first, next) == (next - first) % SEQSPACE

\* seq lies in the circular range [lo, hi); lo = hi is the empty range
InCirc(seq, lo, hi) == seq \in Idx /\ Dist(lo, seq) < Dist(lo, hi)

\* the carried checksum differs from the sum of the packet's other fields
ChecksumMismatch(p) == p.checksum # p.seqnum + p.acknum + SumBytes(p.payload)

\* a timer call made in the state the timer facility does not expect
BadTimerCall(c) ==
  \/ c.call = "starttimer" /\ c.running
  \/ c.call = "stoptimer" /\ ~c.running

\* q is p with exactly one payload byte replaced, the byte sum changed and
\* the header fields and the checksum as in p
OneByteOff(p, q) ==
  /\ q.seqnum = p.seqnum
  /\ q.acknum = p.acknum
  /\ q.checksum = p.checksum
  /\ Cardinality({i \in 1..PAYLOADLEN : q.payload[i] # p.payload[i]}) = 1
  /\ SumBytes(q.payload) # SumBytes(p.payload)

\* the packets offered to the receiver whose checksum does not match
MismatchedInputs == {p \in DataInputs : ChecksumMismatch(p)}

\* the packets offered to the receiver whose checksum matches
MatchingInputs == {p \in DataInputs : ~ChecksumMismatch(p)}

(* ---------------- C1 ---------------------------------------------------- *)
\* C1: in every reachable state of the composed system the payloads B has
\* handed to the application are a prefix of the messages A_output accepted,
\* in the order accepted: none twice, none skipped.
InOrderExactlyOnce ==
  /\ Len(delivered) <= nAccepted
  /\ \A i \in 1..Len(delivered) : delivered[i] = Msg(i - 1)

(* ---------------- C2 ---------------------------------------------------- *)
\* C2: in every reachable sender state at most WINDOWSIZE packets are
\* outstanding, 0 <= (A_nextseqnum - windowfirst) mod SEQSPACE <= WINDOWSIZE,
\* also after the sequence numbers have wrapped.
WindowInvariant ==
  /\ 0 <= Dist(windowfirst, A_nextseqnum)
  /\ Dist(windowfirst, A_nextseqnum) <= WINDOWSIZE
  /\ nAccepted - baseCount <= WINDOWSIZE

(* ---------------- C3 ---------------------------------------------------- *)
\* C3: A_output accepts the message iff
\* (A_nextseqnum - windowfirst) mod SEQSPACE < WINDOWSIZE; a rejected call
\* transmits nothing, does not touch the timer, leaves windowfirst,
\* A_nextseqnum, the transmit buffer and the flags alone and counts one
\* window-full.
SubmitAdmission ==
  [][ev'.op = "A_output" =>
       /\ (ev'.toL3 # <<>>) <=> (Dist(windowfirst, A_nextseqnum) < WINDOWSIZE)
       /\ (nAccepted' = nAccepted + 1) <=> (Dist(windowfirst, A_nextseqnum) < WINDOWSIZE)
       /\ ~(Dist(windowfirst, A_nextseqnum) < WINDOWSIZE) =>
            /\ ev'.toL3 = <<>>
            /\ ev'.timer = <<>>
            /\ ev'.stats = {"window_full"}
            /\ UNCHANGED <<windowfirst, A_nextseqnum, buffer, isAcked, timerA>>]_vars

(* ---------------- C4 ---------------------------------------------------- *)
\* the sender has outstanding packets and the flag of windowfirst is already
\* set: an ACK for windowfirst is discarded as a duplicate, and no other ACK
\* moves windowfirst
SenderStuck == windowfirst # A_nextseqnum /\ isAcked[windowfirst]

\* once the sender is stuck, every later step leaves it stuck with the same
\* windowfirst or makes its window look empty with the flag still set
StuckForever ==
  [][isAcked[windowfirst] => (windowfirst' = windowfirst /\ isAcked'[windowfirst])]_vars

\* C4: every accepted message is eventually delivered and acknowledged; the
\* sender never reaches a state with unacknowledged packets from which no ACK
\* can ever advance windowfirst.
NeverStuck == ~SenderStuck

(* ---------------- C5 ---------------------------------------------------- *)
\* C5: when A_input is called twice in a row with the same uncorrupted ACK,
\* the second call leaves windowfirst, A_nextseqnum, the flags, the transmit
\* buffer and the timer as the first call left them, transmits nothing, calls
\* no timer function and does not count a new ACK.
IdempotentAck ==
  [][(/\ ev.op = "A_input"
      /\ ~ChecksumMismatch(ev.ack)
      /\ ev'.op = "A_input"
      /\ ev'.ack = ev.ack
      /\ ev'.again) =>
       /\ UNCHANGED <<windowfirst, A_nextseqnum, isAcked, buffer, timerA>>
       /\ ev'.toL3 = <<>>
       /\ ev'.timer = <<>>
       /\ "new_ACKs" \notin ev'.stats]_vars

\* an uncorrupted ACK for a sequence number inside the window arrived again
\* and was discarded
IdempotentAckWitness ==
  /\ ev.op = "A_input"
  /\ ev.again
  /\ ~ChecksumMismatch(ev.ack)
  /\ InCirc(ev.ack.acknum, windowfirst, A_nextseqnum)
  /\ isAcked[ev.ack.acknum]
  /\ "new_ACKs" \notin ev.stats

(* ---------------- C6 ---------------------------------------------------- *)
\* C6: every A_timerinterrupt hands exactly one packet to the channel, the
\* packet of the oldest message not yet acknowledged, with sequence number
\* windowfirst and the payload submitted; it counts one resend, leaves the
\* timer running and leaves windowfirst, A_nextseqnum and the flags alone.
TimeoutResendsOldest ==
  [][ev'.op = "A_timerinterrupt" =>
       /\ baseCount < nAccepted
       /\ ~isAcked[windowfirst]
       /\ ev'.toL3 = <<DataPkt(windowfirst, Msg(baseCount))>>
       /\ ev'.stats = {"packets_resent"}
       /\ timerA'
       /\ UNCHANGED <<windowfirst, A_nextseqnum, isAcked>>]_vars

(* ---------------- C7 ---------------------------------------------------- *)
\* C7: starttimer(A) is never called while A's timer is running and
\* stoptimer(A) never while it is not; A_output starts the timer only when no
\* packet is outstanding.
SingleTimerDiscipline ==
  /\ \A i \in DOMAIN ev.timer : ~BadTimerCall(ev.timer[i])
  /\ (ev.op = "A_output" /\ ev.timer # <<>>) => nAccepted - baseCount = 1

(* ---------------- C8 ---------------------------------------------------- *)
\* C8: A_input on a corrupted packet, or on an uncorrupted one whose acknum
\* (0..SEQSPACE-1 or NOTINUSE) is outside the circular range
\* [windowfirst, A_nextseqnum), changes nothing of the sender, transmits
\* nothing, leaves the timer alone and indexes no flag outside 0..SEQSPACE-1.
IgnoredAckNoOp ==
  [][(/\ ev'.op = "A_input"
      /\ \/ ChecksumMismatch(ev'.ack)
         \/ ~InCirc(ev'.ack.acknum, windowfirst, A_nextseqnum)) =>
       /\ UNCHANGED <<windowfirst, A_nextseqnum, isAcked, buffer, timerA>>
       /\ ev'.toL3 = <<>>
       /\ ev'.timer = <<>>
       /\ "new_ACKs" \notin ev'.stats
       /\ ~ev'.oob]_vars

(* ---------------- C9 ---------------------------------------------------- *)
\* C9: B_input on a packet whose checksum does not match sends no ACK,
\* delivers nothing and leaves buffer_B_start and every reassembly slot
\* unchanged.
CorruptedDropped ==
  [][\A p \in MismatchedInputs :
       B_input(p) =>
         /\ ev'.toL3 = <<>>
         /\ ev'.toL5 = <<>>
         /\ UNCHANGED <<buffer_B_start, buffer_B_side>>]_vars

\* B_input has just dropped a packet before counting it as received, with
\* packets waiting in the reassembly buffer
CorruptedDroppedWitness ==
  /\ ev.op = "B_input"
  /\ "packets_received" \notin ev.stats
  /\ ev.toL3 = <<>>
  /\ buffer_B_start # 0
  /\ \E i \in Idx : buffer_B_side[i].seqnum # NOTINUSE

(* ---------------- C10 --------------------------------------------------- *)
\* C10: B_input on an uncorrupted packet whose seqnum is in the circular
\* range [buffer_B_start - WINDOWSIZE, buffer_B_start) sends exactly one ACK,
\* with acknum equal to that seqnum and a matching checksum, delivers
\* nothing, stores nothing and leaves buffer_B_start unchanged.
PreviousWindowReAcked ==
  [][\A p \in MatchingInputs :
       (/\ InCirc(p.seqnum, (buffer_B_start - WINDOWSIZE) % SEQSPACE, buffer_B_start)
        /\ B_input(p)) =>
         /\ Len(ev'.toL3) = 1
         /\ ev'.toL3[1].acknum = p.seqnum
         /\ ~ChecksumMismatch(ev'.toL3[1])
         /\ ev'.toL5 = <<>>
         /\ UNCHANGED <<buffer_B_start, buffer_B_side>>]_vars

\* B_input has just acknowledged, without delivering, a sequence number of
\* the previous window, after the window has wrapped
PreviousWindowReAckedWitness ==
  /\ ev.op = "B_input"
  /\ Len(ev.toL3) = 1
  /\ ev.toL5 = <<>>
  /\ InCirc(ev.toL3[1].acknum, (buffer_B_start - WINDOWSIZE) % SEQSPACE, buffer_B_start)
  /\ ev.toL3[1].acknum > buffer_B_start

(* ---------------- C11 --------------------------------------------------- *)
\* C11: B_input on an uncorrupted packet whose seqnum is neither in the
\* current window [buffer_B_start, buffer_B_start + WINDOWSIZE) nor in the
\* previous window [buffer_B_start - WINDOWSIZE, buffer_B_start) sends no
\* ACK, delivers nothing and leaves buffer_B_start and every reassembly slot
\* unchanged.
OutOfWindowDropped ==
  [][\A p \in MatchingInputs :
       (/\ ~InCirc(p.seqnum, buffer_B_start, (buffer_B_start + WINDOWSIZE) % SEQSPACE)
        /\ ~InCirc(p.seqnum, (buffer_B_start - WINDOWSIZE) % SEQSPACE, buffer_B_start)
        /\ B_input(p)) =>
         /\ ev'.toL3 = <<>>
         /\ ev'.toL5 = <<>>
         /\ UNCHANGED <<buffer_B_start, buffer_B_side>>]_vars

\* B_input has just counted a packet as received and dropped it without an
\* ACK, with the window moved and packets waiting in the reassembly buffer
OutOfWindowDroppedWitness ==
  /\ ev.op = "B_input"
  /\ "packets_received" \in ev.stats
  /\ ev.toL3 = <<>>
  /\ ev.toL5 = <<>>
  /\ buffer_B_start # 0
  /\ \E i \in Idx : buffer_B_side[i].seqnum # NOTINUSE

(* ---------------- C12 --------------------------------------------------- *)
\* C12: the checksum of every packet A_output builds and of every ACK
\* B_input builds matches its fields, so the packet handed on as built is
\* not taken for corrupted by the handler it arrives at; and a packet with a
\* matching checksum of which exactly one payload byte has been replaced,
\* changing the byte sum, is taken for corrupted by that handler.
ChecksumSound ==
  [][/\ ev'.op \in {"A_output", "B_input"} =>
          \A i \in DOMAIN ev'.toL3 : ~ChecksumMismatch(ev'.toL3[i])
     /\ (ev'.op = "B_input" /\ AtoB # <<>> /\ AtoB' = <<>> /\ ev.toL3 # <<>>) =>
          LET p == ev.toL3[1]
              q == Head(AtoB)
          IN /\ q = p => ev'.stats # {}
             /\ (~ChecksumMismatch(p) /\ OneByteOff(p, q)) => ev'.stats = {}
     /\ (ev'.op = "A_input" /\ BtoA # <<>> /\ BtoA' = <<>> /\ ev.toL3 # <<>>) =>
          LET p == ev.toL3[1]
              q == Head(BtoA)
          IN /\ q = p => ev'.stats # {}
             /\ (~ChecksumMismatch(p) /\ OneByteOff(p, q)) => ev'.stats = {}]_vars

\* A_input has just dropped as corrupted an ACK that differs in one payload
\* byte from the ACK B_input built
ChecksumSoundWitness ==
  /\ ev.op = "A_input"
  /\ ev.stats = {}
  /\ \E a \in Idx : ~ChecksumMismatch(AckPkt(a)) /\ OneByteOff(AckPkt(a), ev.ack)
  /\ baseCount > 0

(* ---------------- C13 --------------------------------------------------- *)
\* the number of sequence numbers windowfirst passes when the ACK of
\* windowfirst is recorded: up to the first one in [first, next) whose flag
\* is not set, all of them if every flag is set
Passed(first, next, acked) ==
  LET n == Dist(first, next)
  IN CHOOSE k \in 0..n :
       /\ n > 0 => k > 0
       /\ \A j \in 1..(k - 1) : acked[(first + j) % SEQSPACE]
       /\ k < n => ~acked[(first + k) % SEQSPACE]

\* C13: when A_input is given an uncorrupted ACK whose acknum is windowfirst
\* and whose flag is not yet set, a running timer is stopped, windowfirst
\* moves to the first sequence number of [windowfirst, A_nextseqnum) that is
\* not acknowledged (to A_nextseqnum if all are), the flags of the sequence
\* numbers passed are cleared and no other flag changes, A_nextseqnum is
\* unchanged, and afterwards the timer is running iff
\* windowfirst # A_nextseqnum.
BaseAckSlides ==
  [][(/\ ev'.op = "A_input"
      /\ ~ChecksumMismatch(ev'.ack)
      /\ ev'.ack.acknum = windowfirst
      /\ ~isAcked[windowfirst]) =>
       LET k == Passed(windowfirst, A_nextseqnum, isAcked)
       IN /\ timerA => (ev'.timer # <<>> /\ ev'.timer[1].call = "stoptimer")
          /\ windowfirst' = (windowfirst + k) % SEQSPACE
          /\ \A s \in Idx :
               isAcked'[s] = (IF Dist(windowfirst, s) < k THEN FALSE ELSE isAcked[s])
          /\ A_nextseqnum' = A_nextseqnum
          /\ timerA' <=> (windowfirst' # A_nextseqnum')]_vars

(* ---------------- C14 --------------------------------------------------- *)
\* C14: when A_input is given an uncorrupted ACK whose acknum is in the
\* circular range [windowfirst, A_nextseqnum), is not windowfirst and whose
\* flag is not set, the flag of that acknum becomes set and nothing else
\* changes: windowfirst, A_nextseqnum, the transmit buffer, every other flag
\* and the timer stay as they were, no timer function is called and no
\* packet is transmitted.
OutOfOrderAckRecorded ==
  [][(/\ ev'.op = "A_input"
      /\ ~ChecksumMismatch(ev'.ack)
      /\ InCirc(ev'.ack.acknum, windowfirst, A_nextseqnum)
      /\ ev'.ack.acknum # windowfirst
      /\ ~isAcked[ev'.ack.acknum]) =>
       /\ isAcked' = [isAcked EXCEPT ![ev'.ack.acknum] = TRUE]
       /\ UNCHANGED <<windowfirst, A_nextseqnum, buffer, timerA>>
       /\ ev'.timer = <<>>
       /\ ev'.toL3 = <<>>]_vars

\* A_input has just recorded an ACK for a sequence number behind windowfirst
\* in a window that wraps around the sequence space
OutOfOrderAckRecordedWitness ==
  /\ ev.op = "A_input"
  /\ "new_ACKs" \in ev.stats
  /\ ev.timer = <<>>
  /\ InCirc(ev.ack.acknum, windowfirst, A_nextseqnum)
  /\ ev.ack.acknum < windowfirst
  /\ isAcked[ev.ack.acknum]
  /\ ~isAcked[windowfirst]
  /\ timerA

(* ---------------- C15 --------------------------------------------------- *)
\* the reassembly slots once packet p is kept: p goes into its slot if the
\* slot is empty, an occupied slot keeps what it holds
Kept(slots, p) ==
  [s \in Idx |-> IF s = p.seqnum /\ slots[s].seqnum = NOTINUSE THEN p ELSE slots[s]]

\* the length of the maximal run of occupied slots from start on
Run(slots, start) ==
  CHOOSE k \in 0..SEQSPACE :
    /\ \A j \in 0..(k - 1) : slots[(start + j) % SEQSPACE].seqnum # NOTINUSE
    /\ k < SEQSPACE => slots[(start + k) % SEQSPACE].seqnum = NOTINUSE

\* C15: B_input on an uncorrupted packet whose seqnum is in the circular
\* range [buffer_B_start, buffer_B_start + WINDOWSIZE) sends exactly one
\* ACK, with acknum equal to that seqnum and a matching checksum; it keeps
\* the packet unless its slot is occupied, then delivers the payloads of the
\* maximal run of occupied slots from the old buffer_B_start on, in sequence
\* order, empties each delivered slot, advances buffer_B_start by one per
\* delivery, leaves the other slots as they are, and returns with the slot
\* at buffer_B_start empty.
CurrentWindowReceive ==
  [][\A p \in MatchingInputs :
       (/\ InCirc(p.seqnum, buffer_B_start, (buffer_B_start + WINDOWSIZE) % SEQSPACE)
        /\ B_input(p)) =>
         LET kept == Kept(buffer_B_side, p)
             k == Run(kept, buffer_B_start)
         IN /\ Len(ev'.toL3) = 1
            /\ ev'.toL3[1].acknum = p.seqnum
            /\ ~ChecksumMismatch(ev'.toL3[1])
            /\ ev'.toL5 = [j \in 1..k |-> kept[(buffer_B_start + j - 1) % SEQSPACE].payload]
            /\ buffer_B_start' = (buffer_B_start + k) % SEQSPACE
            /\ \A s \in Idx :
                 buffer_B_side'[s] = IF Dist(buffer_B_start, s) < k
                                     THEN [kept[s] EXCEPT !.seqnum = NOTINUSE]
                                     ELSE kept[s]
            /\ buffer_B_side'[buffer_B_start'].seqnum = NOTINUSE]_vars

\* B_input has just acknowledged a packet and delivered a run of several
\* payloads, past the end of the sequence space, with a later packet still
\* waiting in the reassembly buffer
CurrentWindowReceiveWitness ==
  /\ ev.op = "B_input"
  /\ Len(ev.toL3) = 1
  /\ Len(ev.toL5) >= 3
  /\ buffer_B_start < Len(ev.toL5)
  /\ \E i \in Idx : buffer_B_side[i].seqnum # NOTINUSE

(* ---------------- C16 --------------------------------------------------- *)
\* C16: for all seq, start, end in 0..SEQSPACE-1, is_within_window(seq,
\* start, end) is true exactly when
\* (seq - start) mod SEQSPACE < (end - start) mod SEQSPACE, and for every
\* buffer_B_start no sequence number is both in the current and in the
\* previous window of B_input.
WindowMembership ==
  /\ Len(args) = 3 =>
       (result[1] <=> Dist(args[2], args[1]) < Dist(args[2], args[3]))
  /\ Len(args) = 2 => ~(result[1] /\ result[2])

\* is_within_window has just returned true for a sequence number below end
\* in a range that wraps around the sequence space
WindowMembershipWitness ==
  /\ Len(args) = 3
  /\ args[2] > args[3]
  /\ args[1] < args[3]
  /\ result[1]

(* ---------------- C17 --------------------------------------------------- *)
\* C17: in every reachable state, for each message A_output has accepted
\* that windowfirst has not passed and whose flag is not set, the transmit
\* buffer slot of its sequence number holds the packet A_output built for
\* that message.
RetransmitBufferIntact ==
  \A n \in baseCount..(nAccepted - 1) :
    ~isAcked[n % SEQSPACE] => buffer[n % SEQSPACE] = DataPkt(n % SEQSPACE, Msg(n))

(* ---------------- C18 --------------------------------------------------- *)
\* message n has reached the receiver: its payload was delivered or waits
\* in a reassembly slot
Received(n) ==
  \/ \E i \in DOMAIN delivered : delivered[i] = Msg(n)
  \/ \E s \in Idx : buffer_B_side[s].seqnum # NOTINUSE /\ buffer_B_side[s].payload = Msg(n)

\* C18: in every reachable state of the composed system the number of
\* messages windowfirst has passed is at most the number B has delivered,
\* which is at most the number A_output has accepted, and every outstanding
\* message whose flag is set has reached the receiver.
NoAckBeforeReceipt ==
  /\ baseCount <= Len(delivered)
  /\ Len(delivered) <= nAccepted
  /\ \A n \in baseCount..(nAccepted - 1) : isAcked[n % SEQSPACE] => Received(n)

(* ---------------- C19 --------------------------------------------------- *)
\* C19: in every reachable state isAcked[s] is false for every sequence
\* number s outside the circular range [windowfirst, A_nextseqnum) and for
\* s = windowfirst.
FlagsInsideWindow ==
  \A s \in Idx :
    (s = windowfirst \/ ~InCirc(s, windowfirst, A_nextseqnum)) => ~isAcked[s]

(* ---------------- C20 --------------------------------------------------- *)
\* C20: in every reachable state A's timer is running iff at least one
\* accepted message has not been passed by windowfirst, and that is so iff
\* windowfirst # A_nextseqnum.
TimerTracksOutstanding ==
  /\ timerA <=> (baseCount < nAccepted)
  /\ (baseCount < nAccepted) <=> (windowfirst # A_nextseqnum)

====
